---- MODULE Spec2Model ----
(***************************************************************************)
(* A model of tractfinder_chh: the coordinate helpers of                   *)
(* lib/tractfinder/utils.py, the surface and mask helpers of virtue.py and *)
(* the control flow of bin/tractfinder_chh.py (execute).                   *)
(*                                                                         *)
(* Numbers.  The helpers work on floating-point arrays.  The model keeps   *)
(* every quantity exact: a radius is the square root of an integer, an     *)
(* elevation is the angle in [0, pi] whose cosine is sgn*sqrt(num/den), an *)
(* azimuth is the angle in (-pi, pi] of a reduced integer direction.  NaN  *)
(* and the substituted elevation 0.1 are values of their own.              *)
(***************************************************************************)
EXTENDS Integers, Sequences, FiniteSets, TLC

VARIABLES
    pts,        \* c2s: the Cartesian batch C (a sequence of <<x, y, z>> rows)
    sph,        \* s2c: the spherical batch S (a sequence of rows [r, el, az])
    called,     \* c2s: for each call form, the result of calling it on pts
    vol,        \* simplify_vol: the foreground voxels of the mask
    convex_hull,    \* simplify_vol: flag
    largest_object, \* simplify_vol: flag
    simp,       \* simplify_vol: the locals reached and the outcome of the call
    main,       \* main of virtue.py: the outcome, and e for every voxel
    surf_in,    \* surf_from_vol: the arguments of the call
    surf,       \* surf_from_vol: the locals reached and the outcome of the call
    ARGS,       \* execute: app.ARGS, the parsed command line
    fs,         \* execute: what is on disk when the run starts, and -force
    pc,         \* execute: position in execute()
    make_brain_mask, \* execute: local
    atlas_paths,     \* execute: local
    output_paths,    \* execute: local
    zip_i,          \* execute: local, the counter of the mapping loop
    engine,     \* execute: the arguments virtue.entry_point_chh was called with
    log,        \* execute: the commands and steps run so far, in order
    error       \* execute: the message of the error that ended the run

vars == <<pts, sph, called, vol, convex_hull, largest_object, simp, main,
          surf_in, surf, ARGS, fs, pc, make_brain_mask, atlas_paths,
          output_paths, zip_i, engine, log, error>>

c2sVars  == <<pts, sph, called>>
simpVars == <<vol, convex_hull, largest_object, simp, main>>
surfVars == <<surf_in, surf>>
execVars == <<ARGS, fs, pc, make_brain_mask, atlas_paths, output_paths, zip_i,
              engine, log, error>>

(***************************************************************************)
(* Bounds of the model.                                                    *)
(***************************************************************************)
CoordMax == 1      \* Cartesian coordinates range over -CoordMax..CoordMax
MaxPts   == 2      \* rows in a Cartesian batch
MaxScale == 2      \* radii of the round trip are 25, 50, .. 25*MaxScale
NX       == 3      \* the mask volume has shape (NX, NY, NZ)
NY       == 3
NZ       == 3
MaxFg    == 4      \* foreground voxels in a mask
MaxFaces == 4      \* faces of the raw isosurface
MaxTarget == 5     \* largest target_nfaces tried (above MaxFaces on purpose)
MaxListing == 3    \* images in the atlas directory

(***************************************************************************)
(* Exact arithmetic.                                                       *)
(***************************************************************************)
Abs(n)  == IF n < 0 THEN -n ELSE n
Sign(n) == IF n < 0 THEN -1 ELSE IF n > 0 THEN 1 ELSE 0

RECURSIVE GCD(_, _)
GCD(a, b) == IF b = 0 THEN a ELSE GCD(b, a % b)

\* the exact square root of a perfect square
ISqrt(n) == CHOOSE k \in 0..n : k * k = n

\* np.sqrt of an integer n >= 0, kept exact: the value whose square is n
Sqrt(n) == [sq |-> n]

NaN      == [kind |-> "nan",      sgn |-> 0, num |-> 0, den |-> 1]
Inf      == [kind |-> "inf",      sgn |-> 0, num |-> 0, den |-> 1]
Sentinel == [kind |-> "sentinel", sgn |-> 0, num |-> 0, den |-> 1]
Val(s, n, d) == [kind |-> "val", sgn |-> s, num |-> n, den |-> d]

\* z / sqrt(rho2) in IEEE arithmetic: 0/0 is NaN, z/0 is infinite, else
\* the real sgn(z)*sqrt(z^2/rho2), kept in lowest terms
Divide(z, rho) ==
    IF rho.sq = 0
    THEN IF z = 0 THEN NaN ELSE Inf
    ELSE LET g == GCD(z * z, rho.sq)
         IN  Val(Sign(z), (z * z) \div g, rho.sq \div g)

\* np.arccos: NaN for NaN and for anything outside [-1, 1]; else the angle
\* in [0, pi] with that cosine, named by the cosine
ArcCos(q) ==
    IF q.kind # "val" \/ q.num > q.den THEN NaN ELSE q

IsNaN(e) == e.kind = "nan"

\* np.arctan(y / x) in place of np.arctan2(y, x): the quadrant is lost
ArcTanOfQuotient(y, x) ==
    IF x = 0 /\ y = 0
    THEN [dx |-> 1, dy |-> 0]
    ELSE LET g == GCD(Abs(x), Abs(y))
         IN  IF x < 0 THEN [dx |-> (-x) \div g, dy |-> (-y) \div g]
                      ELSE [dx |-> x \div g, dy |-> y \div g]

\* np.arctan2(y, x): the angle in (-pi, pi] of the direction (x, y), named
\* by that direction in lowest terms; arctan2(0, 0) is 0
ArcTan2(y, x) ==
    IF x = 0 /\ y = 0
    THEN [dx |-> 1, dy |-> 0]
    ELSE LET g == GCD(Abs(x), Abs(y))
         IN  [dx |-> x \div g, dy |-> y \div g]

\* np.cos, np.sin of an elevation and of an azimuth, as <<numerator,
\* denominator>>; defined for the angles whose sine and cosine are rational
CosEl(e) == <<e.sgn * ISqrt(e.num), ISqrt(e.den)>>
SinEl(e) == <<ISqrt(e.den - e.num), ISqrt(e.den)>>
CosAz(a) == <<a.dx, ISqrt(a.dx * a.dx + a.dy * a.dy)>>
SinAz(a) == <<a.dy, ISqrt(a.dx * a.dx + a.dy * a.dy)>>

\* R * f * g for an integer R and two fractions whose product divides R
Mul3(R, f, g) == (R * f[1] * g[1]) \div (f[2] * g[2])

SumSq(p) == p[1] * p[1] + p[2] * p[2] + p[3] * p[3]

(***************************************************************************)
(* numpy and Python pieces used by c2s.                                    *)
(***************************************************************************)
RECURSIVE Ascending(_)
Ascending(I) ==
    IF I = {} THEN <<>>
    ELSE LET m == CHOOSE i \in I : \A j \in I : i <= j
         IN  <<m>> \o Ascending(I \ {m})

\* np.where(flags)[0]: the indices where flags holds, ascending
Where(flags) == Ascending({i \in DOMAIN flags : flags[i]})

\* bool(a) of a 1-D boolean array: its element when it has one, False when
\* it is empty, and a ValueError ("truth value of an array with more than
\* one element is ambiguous") otherwise
ArrayBool(a) ==
    IF Len(a) = 0 THEN "False"
    ELSE IF Len(a) = 1 THEN (IF a[1] THEN "True" ELSE "False")
    ELSE "ValueError"

\* np.where(p) == np.where(q): each side is a 1-tuple holding an index array,
\* so Python compares the tuples item by item, a == b is numpy's elementwise
\* comparison (with broadcasting of a length-1 side) and the tuple comparison
\* takes bool() of that array.  Index arrays of unequal lengths that do not
\* broadcast compare unequal (or raise, on newer numpy): "Mismatch".
WhereTuplesEqual(a, b) ==
    IF Len(a) = Len(b)
    THEN ArrayBool([i \in 1..Len(a) |-> a[i] = b[i]])
    ELSE IF Len(a) = 1
    THEN ArrayBool([i \in 1..Len(b) |-> a[1] = b[i]])
    ELSE IF Len(b) = 1
    THEN ArrayBool([i \in 1..Len(a) |-> a[i] = b[1]])
    ELSE "Mismatch"

(***************************************************************************)
(* c2s and s2c.  A result is [status, S, printed]: status is "ok" or the   *)
(* exception raised, S the returned rows [r, el, az] (none on failure) and *)
(* printed the NaN count reported on stdout (0 when nothing is reported).  *)
(***************************************************************************)
Rows(rho, el, az) == [i \in DOMAIN rho |-> [r |-> rho[i], el |-> el[i], az |-> az[i]]]
Returned(S, n) == [status |-> "ok", S |-> S, printed |-> n]
Raised(e, n)   == [status |-> e, S |-> <<>>, printed |-> n]
NotCalled      == [status |-> "none", S |-> <<>>, printed |-> 0]

\* utils.c2s(C), C an Nx3 array
utils_c2s(C) ==
    LET S0   == [i \in DOMAIN C |-> Sqrt(SumSq(C[i]))]
        S1   == [i \in DOMAIN C |-> ArcCos(Divide(C[i][3], S0[i]))]
        nan  == Where([i \in DOMAIN C |-> IsNaN(S1[i])])
        zero == Where([i \in DOMAIN C |-> S0[i].sq = 0])
        same == WhereTuplesEqual(nan, zero)
        S1s  == [i \in DOMAIN C |-> IF IsNaN(S1[i]) THEN Sentinel ELSE S1[i]]
        S2   == [i \in DOMAIN C |-> ArcTan2(C[i][2], C[i][1])]
    IN  IF nan = <<>> THEN Returned(Rows(S0, S1, S2), 0)
        ELSE IF same = "ValueError" THEN Raised("ValueError", Len(nan))
        ELSE IF same # "True" THEN Raised("AssertionError", Len(nan))
        ELSE Returned(Rows(S0, S1s, S2), Len(nan))

\* utils.c2s(X, Y, Z), three 1-D arrays
utils_c2s_xyz(X, Y, Z) ==
    LET rho == [i \in DOMAIN X |-> Sqrt(X[i] * X[i] + Y[i] * Y[i] + Z[i] * Z[i])]
        el  == [i \in DOMAIN X |-> ArcCos(Divide(Z[i], rho[i]))]
        az  == [i \in DOMAIN X |-> ArcTan2(Y[i], X[i])]
    IN  Returned(Rows(rho, el, az), 0)

\* virtue.c2s(C), C an Nx3 array
virtue_c2s(C) ==
    LET S0 == [i \in DOMAIN C |-> Sqrt(SumSq(C[i]))]
        S1 == [i \in DOMAIN C |-> ArcCos(Divide(C[i][3], S0[i]))]
        S2 == [i \in DOMAIN C |-> ArcTan2(C[i][2], C[i][1])]
    IN  Returned(Rows(S0, S1, S2), 0)

\* virtue.c2s(X, Y, Z), three 1-D arrays
virtue_c2s_xyz(X, Y, Z) ==
    LET rho == [i \in DOMAIN X |-> Sqrt(X[i] * X[i] + Y[i] * Y[i] + Z[i] * Z[i])]
        el  == [i \in DOMAIN X |-> ArcCos(Divide(Z[i], rho[i]))]
        az  == [i \in DOMAIN X |-> ArcTan2(Y[i], X[i])]
    IN  Returned(Rows(rho, el, az), 0)

\* utils.s2c(S), S an Nx3 array of rows r, el, az
utils_s2c(S) ==
    [i \in DOMAIN S |->
        << Mul3(S[i].r, SinEl(S[i].el), CosAz(S[i].az)),
           Mul3(S[i].r, SinEl(S[i].el), SinAz(S[i].az)),
           Mul3(S[i].r, CosEl(S[i].el), <<1, 1>>) >>]

\* utils.s2c(R, El, Az), three 1-D arrays; the result X, Y, Z as rows
utils_s2c_rea(R, El, Az) ==
    LET X == [i \in DOMAIN R |-> Mul3(R[i], SinEl(El[i]), CosAz(Az[i]))]
        Y == [i \in DOMAIN R |-> Mul3(R[i], SinEl(El[i]), SinAz(Az[i]))]
        Z == [i \in DOMAIN R |-> Mul3(R[i], CosEl(El[i]), <<1, 1>>)]
    IN  [i \in DOMAIN R |-> <<X[i], Y[i], Z[i]>>]

Column(C, k) == [i \in DOMAIN C |-> C[i][k]]

Forms == {"utils_c2s", "utils_c2s_xyz", "virtue_c2s", "virtue_c2s_xyz"}

\* the inputs drawn: Cartesian batches of integer points, and for the round
\* trip a single row (r, el, az) whose sines and cosines are rational:
\* cos el in {1, 4/5, 3/5, 0, -3/5, -4/5, -1} and az along the twelve
\* directions of the circle with integer coordinates of length 1 or 5
Points  == (-CoordMax..CoordMax) \X (-CoordMax..CoordMax) \X (-CoordMax..CoordMax)
Batches == UNION {[1..n -> Points] : n \in 1..MaxPts}
Radii   == {25 * k : k \in 1..MaxScale}
Elevations ==
    {Val(1, 1, 1), Val(1, 16, 25), Val(1, 9, 25), Val(0, 0, 1),
     Val(-1, 9, 25), Val(-1, 16, 25), Val(-1, 1, 1)}
Azimuths ==
    {[dx |-> d[1], dy |-> d[2]] :
        d \in {<<1, 0>>, <<4, 3>>, <<3, 4>>, <<0, 1>>, <<-3, 4>>, <<-4, 3>>,
               <<-1, 0>>, <<-4, -3>>, <<-3, -4>>, <<0, -1>>, <<3, -4>>, <<4, -3>>}}
SphRows == {[r |-> r, el |-> e, az |-> a] : r \in Radii, e \in Elevations, a \in Azimuths}

UtilsC2s ==
    /\ pts # <<>> /\ called["utils_c2s"] = NotCalled
    /\ called' = [called EXCEPT !["utils_c2s"] = utils_c2s(pts)]
    /\ UNCHANGED <<pts, sph, simpVars, surfVars, execVars>>

UtilsC2sXYZ ==
    /\ pts # <<>> /\ called["utils_c2s_xyz"] = NotCalled
    /\ called' = [called EXCEPT !["utils_c2s_xyz"] =
                     utils_c2s_xyz(Column(pts, 1), Column(pts, 2), Column(pts, 3))]
    /\ UNCHANGED <<pts, sph, simpVars, surfVars, execVars>>

VirtueC2s ==
    /\ pts # <<>> /\ called["virtue_c2s"] = NotCalled
    /\ called' = [called EXCEPT !["virtue_c2s"] = virtue_c2s(pts)]
    /\ UNCHANGED <<pts, sph, simpVars, surfVars, execVars>>

VirtueC2sXYZ ==
    /\ pts # <<>> /\ called["virtue_c2s_xyz"] = NotCalled
    /\ called' = [called EXCEPT !["virtue_c2s_xyz"] =
                     virtue_c2s_xyz(Column(pts, 1), Column(pts, 2), Column(pts, 3))]
    /\ UNCHANGED <<pts, sph, simpVars, surfVars, execVars>>

S2cArray ==
    /\ sph # <<>> /\ pts = <<>>
    /\ pts' = utils_s2c(sph)
    /\ UNCHANGED <<sph, called, simpVars, surfVars, execVars>>

S2cREA ==
    /\ sph # <<>> /\ pts = <<>>
    /\ pts' = utils_s2c_rea([i \in DOMAIN sph |-> sph[i].r],
                            [i \in DOMAIN sph |-> sph[i].el],
                            [i \in DOMAIN sph |-> sph[i].az])
    /\ UNCHANGED <<sph, called, simpVars, surfVars, execVars>>

\* the parts of the state a specification does not exercise
IdleC2s  == pts = <<>> /\ sph = <<>> /\ called = [f \in Forms |-> NotCalled]
IdleSimp ==
    /\ vol = {} /\ convex_hull = TRUE /\ largest_object = TRUE /\ simp = <<>>
    /\ main = <<>>
IdleSurf == surf_in = <<>> /\ surf = <<>>
IdleExec ==
    /\ ARGS = <<>> /\ fs = <<>> /\ pc = "idle" /\ make_brain_mask = FALSE
    /\ atlas_paths = <<>> /\ output_paths = <<>> /\ zip_i = 0 /\ engine = <<>>
    /\ log = <<>> /\ error = ""

InitC2S ==
    /\ pts \in Batches /\ sph = <<>> /\ called = [f \in Forms |-> NotCalled]
    /\ IdleSimp /\ IdleSurf /\ IdleExec
NextC2S == UtilsC2s \/ UtilsC2sXYZ \/ VirtueC2s \/ VirtueC2sXYZ
SpecC2S == InitC2S /\ [][NextC2S]_vars

InitS2C ==
    /\ sph \in {<<row>> : row \in SphRows} /\ pts = <<>>
    /\ called = [f \in Forms |-> NotCalled]
    /\ IdleSimp /\ IdleSurf /\ IdleExec
NextS2C == S2cArray \/ S2cREA \/ UtilsC2s \/ UtilsC2sXYZ \/ VirtueC2s \/ VirtueC2sXYZ
SpecS2C == InitS2C /\ [][NextS2C]_vars

(***************************************************************************)
(* Claims about c2s and s2c.                                               *)
(***************************************************************************)
Origin == <<0, 0, 0>>
OriginCount(C) == Cardinality({i \in DOMAIN C : C[i] = Origin})
IsPole(e) == e = Val(1, 1, 1) \/ e = Val(-1, 1, 1)

\* C3: for a batch holding n >= 1 points at the origin, the single-array form
\* of utils.c2s returns, gives each of them the elevation 0.1, leaves every
\* other elevation as computed, and reports a substitution count of n.
C3_OriginBatchSubstituted ==
    LET res == called["utils_c2s"]
        n   == OriginCount(pts)
    IN  (res # NotCalled /\ n >= 1) =>
            /\ res.status = "ok"
            /\ res.printed = n
            /\ \A i \in DOMAIN pts :
                   res.S[i].el = IF pts[i] = Origin THEN Sentinel
                                 ELSE ArcCos(Divide(pts[i][3], Sqrt(SumSq(pts[i]))))

\* C4 as stated: for r > 0, el in [0, pi] with both poles, az in (-pi, pi],
\* c2s(s2c(r, el, az)) is (r, el, az).
C4_RoundTripEverywhere ==
    \A f \in {"utils_c2s", "utils_c2s_xyz"} :
        (sph # <<>> /\ called[f] # NotCalled) =>
            /\ called[f].status = "ok"
            /\ \A i \in DOMAIN sph :
                   called[f].S[i] = [r |-> Sqrt(sph[i].r * sph[i].r),
                                     el |-> sph[i].el, az |-> sph[i].az]

\* C4 amended: for r > 0 and az in (-pi, pi], c2s(s2c(r, el, az)) is
\* (r, el, az) for every el strictly between 0 and pi; at the poles el = 0 and
\* el = pi it returns r and el, and the azimuth is not recovered.
C4_RoundTripOffPoles ==
    \A f \in {"utils_c2s", "utils_c2s_xyz"} :
        (sph # <<>> /\ called[f] # NotCalled) =>
            /\ called[f].status = "ok"
            /\ \A i \in DOMAIN sph :
                   /\ called[f].S[i].r = Sqrt(sph[i].r * sph[i].r)
                   /\ called[f].S[i].el = sph[i].el
                   /\ ~IsPole(sph[i].el) => called[f].S[i].az = sph[i].az

\* C4 witness: a round trip through the array forms off the poles, with an
\* azimuth in the third quadrant
C4_Witness ==
    /\ sph # <<>> /\ called["utils_c2s"].status = "ok"
    /\ sph[1].el = Val(-1, 9, 25) /\ sph[1].az = [dx |-> -4, dy |-> -3]
    /\ called["utils_c2s"].S[1].az = sph[1].az

\* C5: every call form of the Cartesian-to-spherical conversion returns the
\* same (r, el, az) for the same points, and each returns the elevation 0.1,
\* not NaN, for a point at the origin.
C5_FormsAgree ==
    (\A f \in Forms : called[f] # NotCalled) =>
        \A f \in Forms :
            /\ called[f].status = "ok"
            /\ called[f].S = called["utils_c2s"].S
            /\ \A i \in DOMAIN pts :
                   pts[i] = Origin => called[f].S[i].el = Sentinel

(***************************************************************************)
(* simplify_vol.  A mask is the set of its foreground voxels <<x, y, z>>.  *)
(***************************************************************************)
Grid  == (0..NX-1) \X (0..NY-1) \X (0..NZ-1)
RECURSIVE MasksUpTo(_)
MasksUpTo(n) ==
    IF n = 0 THEN {{}}
    ELSE LET smaller == MasksUpTo(n - 1)
         IN  smaller \cup {m \cup {v} : m \in smaller, v \in Grid}
Masks == MasksUpTo(MaxFg)

\* position of a voxel in C (row-major) order
Raster(v) == (v[1] * NY + v[2]) * NZ + v[3]

Minus(a, b) == <<a[1] - b[1], a[2] - b[2], a[3] - b[3]>>
Dot(a, b)   == a[1] * b[1] + a[2] * b[2] + a[3] * b[3]
Cross(a, b) == <<a[2] * b[3] - a[3] * b[2],
                 a[3] * b[1] - a[1] * b[3],
                 a[1] * b[2] - a[2] * b[1]>>
Max2(a, b)  == IF a >= b THEN a ELSE b
MaxAbs(u)   == Max2(Abs(u[1]), Max2(Abs(u[2]), Abs(u[3])))

\* neighbours under full connectivity (measure.label's default, 26 in 3-D)
Adjacent(u, v) ==
    /\ u # v
    /\ Abs(u[1] - v[1]) <= 1 /\ Abs(u[2] - v[2]) <= 1 /\ Abs(u[3] - v[3]) <= 1

RECURSIVE Flood(_, _)
Flood(R, S) ==
    LET N == {v \in S \ R : \E u \in R : Adjacent(u, v)}
    IN  IF N = {} THEN R ELSE Flood(R \cup N, S)

\* measure.label(vol): the connected components of the foreground, numbered
\* 1, 2, .. in the raster order of their first voxels; ll[k] is the set of
\* voxels carrying label k
RECURSIVE label(_)
label(S) ==
    IF S = {} THEN <<>>
    ELSE LET first == CHOOSE v \in S : \A w \in S : Raster(v) <= Raster(w)
             comp  == Flood({first}, S)
         IN  <<comp>> \o label(S \ comp)

RECURSIVE SumOf(_, _)
SumOf(S, k) ==
    IF S = {} THEN 0
    ELSE LET v == CHOOSE w \in S : TRUE IN v[k] + SumOf(S \ {v}, k)

MinOf(S, k) == CHOOSE m \in {v[k] : v \in S} : \A v \in S : m <= v[k]
MaxOf(S, k) == CHOOSE m \in {v[k] : v \in S} : \A v \in S : m >= v[k]

\* measure.regionprops(ll): one region per label, in label order.  centroid
\* is the mean of the voxel coordinates, kept as the coordinate sums over the
\* area; bbox is (min_x, min_y, min_z, max_x + 1, max_y + 1, max_z + 1)
regionprops(ll) ==
    [k \in DOMAIN ll |->
        [coords   |-> ll[k],
         area     |-> Cardinality(ll[k]),
         centroid |-> [sum |-> <<SumOf(ll[k], 1), SumOf(ll[k], 2), SumOf(ll[k], 3)>>,
                       n   |-> Cardinality(ll[k])],
         bbox     |-> <<MinOf(ll[k], 1), MinOf(ll[k], 2), MinOf(ll[k], 3),
                        MaxOf(ll[k], 1) + 1, MaxOf(ll[k], 2) + 1, MaxOf(ll[k], 3) + 1>>]]

\* np.argmax(a) as a 0-based index: the first position of the maximum; 
\* -1 stands for the ValueError numpy raises on an empty sequence
argmax(a) ==
    IF Len(a) = 0 THEN -1
    ELSE (CHOOSE k \in DOMAIN a :
             /\ \A j \in DOMAIN a : a[j] <= a[k]
             /\ \A j \in DOMAIN a : j < k => a[j] < a[k]) - 1

\* the voxels of out[b0:b3, b1:b4, b2:b5]
InBox(v, bbox) ==
    /\ bbox[1] <= v[1] /\ v[1] < bbox[4]
    /\ bbox[2] <= v[2] /\ v[2] < bbox[5]
    /\ bbox[3] <= v[3] /\ v[3] < bbox[6]

\* scipy's ConvexHull of the voxel coordinates fails (QhullError) when they
\* do not span three dimensions: fewer than four points, or all coplanar
Coplanar(S) ==
    \/ Cardinality(S) < 4
    \/ LET a == CHOOSE v \in S : TRUE
       IN  \A b, c, d \in S : Dot(Cross(Minus(b, a), Minus(c, a)), Minus(d, a)) = 0

\* the directions that can be normal to a face of the hull of the voxel
\* centres widened by the half-voxel diamond that convex_hull_image adds
\* around every hull vertex: normals of the hull's faces, of the diamond's
\* faces, and of the faces swept by an edge of one along an edge of the other
DiamondEdges == {<<1, -1, 0>>, <<1, 1, 0>>, <<1, 0, -1>>, <<1, 0, 1>>, <<0, 1, -1>>, <<0, 1, 1>>}
HullNormals(S) ==
    {Cross(Minus(b, a), Minus(c, a)) : a, b, c \in S}
    \cup {<<i, j, k>> : i, j, k \in {-1, 1}}
    \cup {Cross(Minus(b, a), d) : a, b \in S, d \in DiamondEdges}

\* region.convex_image, as a set of voxels of the region's bounding box:
\* morphology.convex_hull_image of the region.  For a region that spans three
\* dimensions it holds every voxel whose centre lies in the convex hull of the
\* points c +- 0.5 e_k over the region's voxels c (twice the coordinates keep
\* the test in integers).  For a coplanar region Qhull fails: the image is
\* all False (current releases warn and return an empty image)
convex_image(region) ==
    IF Coplanar(region.coords) THEN {}
    ELSE UNION {
           {p \in Grid :
               /\ InBox(p, h.bbox)
               /\ \/ p \in h.coords
                  \/ \A u \in h.normals : \E c \in h.coords :
                         2 * Dot(u, p) <= 2 * Dot(u, c) + MaxAbs(u)} :
           h \in {[coords |-> region.coords, bbox |-> region.bbox,
                   normals |-> HullNormals(region.coords)]}}

\* the locals and the outcome of a call: status is "ok" or the exception,
\* labelled tells whether measure.label ran, out and centroid are the
\* returned pair (out the set of True voxels; both empty on failure)
SimpNotCalled == [status |-> "none", labelled |-> FALSE, i |-> -1, out |-> {},
                  centroid |-> [sum |-> <<0, 0, 0>>, n |-> 0]]
SimpRaised(e, lab, i) == [status |-> e, labelled |-> lab, i |-> i, out |-> {},
                          centroid |-> [sum |-> <<0, 0, 0>>, n |-> 0]]

\* simplify_vol(vol, convex_hull, largest_object); qhull tells what the
\* installed skimage does when Qhull fails: "empty" or "raise" (releases
\* before the warning let the QhullError through)
simplify_vol(v, ch, lo, qhull) ==
    IF ~(ch \/ lo) THEN SimpRaised("ValueError: flags", FALSE, -1)
    ELSE
    LET ll == label(v)
        cc == regionprops(ll)
        i  == argmax([k \in DOMAIN cc |-> cc[k].area])
    IN  IF i = -1 THEN SimpRaised("ValueError: argmax of an empty sequence", TRUE, -1)
        ELSE
        LET xyz  == cc[i + 1].centroid
            out0 == ll[1 + i]      \* ll == (1 + i)
            flat == Coplanar(cc[i + 1].coords)
        IN  IF ~ch
            THEN [status |-> "ok", labelled |-> TRUE, i |-> i, out |-> out0, centroid |-> xyz]
            ELSE IF flat /\ qhull = "raise"
            THEN SimpRaised("QhullError", TRUE, i)
            ELSE IF ~lo
            THEN SimpRaised("UnboundLocalError", TRUE, i)
            ELSE [status |-> "ok", labelled |-> TRUE, i |-> i,
                  out |-> {p \in out0 : ~InBox(p, cc[i + 1].bbox)}
                          \cup convex_image(cc[i + 1]),
                  centroid |-> xyz]

SimplifyVol ==
    /\ simp = SimpNotCalled
    /\ \E qhull \in {"empty", "raise"} :
           simp' = simplify_vol(vol, convex_hull, largest_object, qhull)
    /\ UNCHANGED <<vol, convex_hull, largest_object, main, c2sVars, surfVars, execVars>>

InitSimp ==
    /\ vol \in Masks /\ convex_hull \in BOOLEAN /\ largest_object \in BOOLEAN
    /\ simp = SimpNotCalled /\ main = <<>>
    /\ IdleC2s /\ IdleSurf /\ IdleExec
NextSimp == SimplifyVol
SpecSimp == InitSimp /\ [][NextSimp]_vars

(***************************************************************************)
(* surf_from_vol.  The arguments: empty tells whether the mask has no      *)
(* foreground, n_faces is the face count of the raw isosurface of a        *)
(* non-empty mask, target_reduction is a fraction <<num, den>> and         *)
(* target_nfaces is None (given = FALSE) or an integer.                    *)
(***************************************************************************)
None     == [given |-> FALSE, val |-> 0]
Some(n)  == [given |-> TRUE, val |-> n]
\* Python's truth value of target_nfaces: None and 0 are both false
Truthy(t) == t.given /\ t.val # 0

RatEq(a, b) == a[1] * b[2] = b[1] * a[2]
RatLess(a, b) == a[1] * b[2] < b[1] * a[2]     \* for positive denominators

SurfInputs ==
    [empty : BOOLEAN, n_faces : 1..MaxFaces,
     target_reduction : {<<k, 10>> : k \in 0..10},
     target_nfaces : {None} \cup {Some(n) : n \in 0..MaxTarget}]

SurfNotCalled == [status |-> "none", decimated |-> FALSE, reduction |-> <<0, 1>>, faces |-> 0]
SurfRaised(e) == [status |-> e, decimated |-> FALSE, reduction |-> <<0, 1>>, faces |-> 0]

\* measure.marching_cubes(gaussian(vol), 0.5): the face count of the
\* isosurface; 0 stands for the ValueError skimage raises when the level 0.5
\* is outside the range of the volume, as it is for an all-zero mask
marching_cubes(in) == IF in.empty THEN 0 ELSE in.n_faces

\* mesh.decimate(target_reduction) on a mesh of n faces: the face count left.
\* VTK clamps the fraction to [0, 1] and removes about that share of the faces
decimate(n, red) ==
    LET r == IF RatLess(red, <<0, 1>>) THEN <<0, 1>>
             ELSE IF RatLess(<<1, 1>>, red) THEN <<1, 1>> ELSE red
    IN  n - ((n * r[1]) \div r[2])

\* surf_from_vol(vol, sigma, target_reduction, target_nfaces): decimated tells
\* whether mesh.decimate was reached, reduction is the fraction handed to it
\* and faces the number of rows of the returned F
surf_from_vol(in) ==
    LET n_faces == marching_cubes(in)
    IN  IF n_faces = 0
        THEN SurfRaised("ValueError: surface level must be within volume data range")
        ELSE LET target_reduction ==
                     IF Truthy(in.target_nfaces)
                     THEN <<n_faces - in.target_nfaces.val, n_faces>>
                     ELSE in.target_reduction
             IN  [status |-> "ok", decimated |-> TRUE, reduction |-> target_reduction,
                  faces |-> decimate(n_faces, target_reduction)]

SurfFromVol ==
    /\ surf = SurfNotCalled
    /\ surf' = surf_from_vol(surf_in)
    /\ UNCHANGED <<surf_in, c2sVars, simpVars, execVars>>

InitSurf ==
    /\ surf_in \in SurfInputs /\ surf = SurfNotCalled
    /\ IdleC2s /\ IdleSimp /\ IdleExec
NextSurf == SurfFromVol
SpecSurf == InitSurf /\ [][NextSurf]_vars

(***************************************************************************)
(* main() of virtue.py, up to the unit radial directions.  vol is the      *)
(* tumour mask; of the brain mask only surf_in.empty and the face count    *)
(* surf_in.n_faces of its raw isosurface matter.                           *)
(***************************************************************************)
BrainFaces  == 3000
TumourFaces == 900

\* lines 268-270 for one voxel P and the centroid S = sum / n:
\* SP = P - S, Dp = |SP|, e = SP / Dp.  The direction is kept in lowest
\* terms; where Dp = 0 the quotient is 0/0, NaN in each component
RadialDirection(P, S) ==
    LET SP == <<S.n * P[1] - S.sum[1], S.n * P[2] - S.sum[2], S.n * P[3] - S.sum[3]>>
        g  == GCD(GCD(Abs(SP[1]), Abs(SP[2])), Abs(SP[3]))
    IN  IF SumSq(SP) = 0 THEN [kind |-> "nan", dir |-> <<0, 0, 0>>]
        ELSE [kind |-> "unit", dir |-> <<SP[1] \div g, SP[2] \div g, SP[3] \div g>>]

MainNotCalled == [status |-> "none", e |-> <<>>]

\* lines 259-270: the outcome of main, with the results of simplify_vol on
\* the tumour mask and of surf_from_vol on the simplified tumour mask
main_steps(tumour_vol, brain, qhull) ==
    LET s1 == simplify_vol(tumour_vol, TRUE, TRUE, qhull)
        b  == surf_from_vol([brain EXCEPT !.target_nfaces = Some(BrainFaces)])
        t  == surf_from_vol([brain EXCEPT !.empty = (s1.out = {}),
                                          !.target_nfaces = Some(TumourFaces)])
    IN  [simp |-> s1,
         surf |-> IF s1.status # "ok" THEN SurfNotCalled
                  ELSE IF b.status # "ok" THEN b ELSE t,
         main |-> IF s1.status # "ok" THEN [status |-> s1.status, e |-> <<>>]
                  ELSE IF b.status # "ok" THEN [status |-> b.status, e |-> <<>>]
                  ELSE IF t.status # "ok" THEN [status |-> t.status, e |-> <<>>]
                  ELSE [status |-> "ok",
                        e |-> [P \in Grid |-> RadialDirection(P, s1.centroid)]]]

Main ==
    /\ main = MainNotCalled
    /\ \E qhull \in {"empty", "raise"} :
           \E r \in {main_steps(vol, surf_in, qhull)} :
               simp' = r.simp /\ surf' = r.surf /\ main' = r.main
    /\ UNCHANGED <<vol, convex_hull, largest_object, surf_in, c2sVars, execVars>>

InitMain ==
    /\ vol \in Masks /\ convex_hull = TRUE /\ largest_object = TRUE
    /\ simp = SimpNotCalled /\ main = MainNotCalled
    /\ surf_in \in [empty : BOOLEAN, n_faces : {MaxFaces},
                    target_reduction : {<<8, 10>>}, target_nfaces : {None}]
    /\ surf = SurfNotCalled
    /\ IdleC2s /\ IdleExec
NextMain == Main
SpecMain == InitMain /\ [][NextMain]_vars

(***************************************************************************)
(* Claims about simplify_vol and surf_from_vol.                            *)
(***************************************************************************)
SimpCalled == simp # <<>> /\ simp.status # "none"
SurfCalled == surf # <<>> /\ surf.status # "none"

\* the component simplify_vol selects: the first, in label order, of those
\* with the most voxels
LargestComponent(v) ==
    LET ll == label(v)
    IN  ll[CHOOSE k \in DOMAIN ll :
              /\ \A j \in DOMAIN ll : Cardinality(ll[j]) <= Cardinality(ll[k])
              /\ \A j \in DOMAIN ll : j < k => Cardinality(ll[j]) < Cardinality(ll[k])]

\* C6: on a mask with foreground, simplify_vol fails exactly when both flags
\* are false, then with the flags error raised before any labelling; for each
\* other flag combination it returns a (mask, centroid) pair.
C6_FailsOnlyWithoutFlags ==
    (SimpCalled /\ vol # {}) =>
        IF ~convex_hull /\ ~largest_object
        THEN simp.status = "ValueError: flags" /\ ~simp.labelled
        ELSE simp.status = "ok"

\* C7: on a mask with no foreground voxel, simplify_vol fails with a geometry
\* error that identifies the empty mask, and returns no mask and no centroid.
C7_EmptyMaskGeometryError ==
    (SimpCalled /\ vol = {}) =>
        /\ simp.status = "GeometryError: empty mask"
        /\ simp.out = {} /\ simp.centroid.n = 0

\* C8: on a mask with two or more connected components and the default flags,
\* simplify_vol returns a mask that holds every voxel of the largest
\* component and no voxel outside that component's bounding box, and returns
\* that component's own centroid, which lies in the bounding box.
C8_LargestComponentKept ==
    (SimpCalled /\ convex_hull /\ largest_object /\ Len(label(vol)) >= 2) =>
        LET comp == LargestComponent(vol)
            box  == <<MinOf(comp, 1), MinOf(comp, 2), MinOf(comp, 3),
                      MaxOf(comp, 1) + 1, MaxOf(comp, 2) + 1, MaxOf(comp, 3) + 1>>
            c    == simp.centroid
        IN  /\ simp.status = "ok"
            /\ comp \subseteq simp.out
            /\ \A p \in simp.out : InBox(p, box)
            /\ c.n = Cardinality(comp)
            /\ c.sum = <<SumOf(comp, 1), SumOf(comp, 2), SumOf(comp, 3)>>
            /\ \A k \in 1..3 : box[k] * c.n <= c.sum[k] /\ c.sum[k] < box[k + 3] * c.n

\* C9: whenever target_nfaces is given, 0 included, the fraction handed to
\* the decimation is (n_faces - target_nfaces) / n_faces; target_reduction is
\* handed over as it is only when target_nfaces is not given.
C9_TargetFacesOverrides ==
    (SurfCalled /\ surf.decimated) =>
        IF surf_in.target_nfaces.given
        THEN RatEq(surf.reduction,
                   <<surf_in.n_faces - surf_in.target_nfaces.val, surf_in.n_faces>>)
        ELSE surf.reduction = surf_in.target_reduction

\* C10: surf_from_vol fails and returns no surface when the mask is empty or
\* when the requested reduction leaves zero faces (target_nfaces = 0, or
\* target_reduction = 1 with no target_nfaces).
C10_FailsWithoutFaces ==
    (/\ SurfCalled
     /\ \/ surf_in.empty
        \/ surf_in.target_nfaces = Some(0)
        \/ (~surf_in.target_nfaces.given /\ RatEq(surf_in.target_reduction, <<1, 1>>)))
    => surf.status \notin {"ok", "none"}

(***************************************************************************)
(* execute() of bin/tractfinder_chh.py.  An option that takes a path is    *)
(* modelled by whether it was given; the paths are fixed names.  -l is     *)
(* None when the user did not give it, and argparse then stores DefaultL.  *)
(* fs is the disk as the run finds it: dirs (paths that are directories),  *)
(* listing (the images of the atlas directory in the order all_in_dir      *)
(* gives them, each with whether its header is spherical harmonics),       *)
(* exists (paths that exist), force (-force).                              *)
(***************************************************************************)
DefaultL == -1

mask_image_reg  == "brain_mask_reg.mif"
mask_image_def  == "brain_mask_def.mif"
tumour_mask     == "tumour_mask.mif"
def_field_image == "deformation_field.mif"
def_field_image_forward == "deformation_field_forw.mif"
struct_image    == "struct.nii.gz"
bet_image       == "bet.nii.gz"

\* the value argparse stores for -l
ArgL(args) == IF args.l.given THEN args.l.val ELSE DefaultL

Range(q) == {q[j] : j \in DOMAIN q}
\* list.pop() with no index: the last element is removed, whatever j is
PopLast(q, j) == SubSeq(q, 1, Len(q) - 1)

\* list.pop(i) of lines 159-160, for the 1-based position j
Pop(q, j) == [m \in 1..(Len(q) - 1) |-> IF m < j THEN q[m] ELSE q[m + 1]]

\* app.check_output_path(p) raises MRtrixError when p exists and -force is off
check_output_path_raises(disk, p) == p \in disk.exists /\ ~disk.force

\* make_dir(path) raises MRtrixError when path exists and is not a directory
make_dir_raises(disk, path) == path \in disk.exists /\ path \notin disk.dirs

Cmd(c, r, w) == [cmd |-> c, reads |-> r, writes |-> w, ok |-> TRUE]

\* the files a command can read: what the user named as inputs, and what the
\* steps so far have written
UserFiles(args) ==
    {"user:input"} \cup {args.arg_pairs[j] : j \in {m \in DOMAIN args.arg_pairs : m % 2 = 1}}
    \cup (IF args.tumour THEN {"user:tumour"} ELSE {})
    \cup (IF args.struct THEN {"user:struct0", "user:struct1"} ELSE {})
    \cup (IF args.brain_mask THEN {"user:brain_mask"} ELSE {})
    \cup (IF args.transform THEN {"user:transform"} ELSE {})
Written(lg) == UNION {lg[j].writes : j \in {m \in DOMAIN lg : lg[m].ok}}

\* run.command on each command of cmds in turn, stopping at the first that
\* fails: one whose input is missing, or that would overwrite an existing
\* user file without -force.  The result is the log, the failing command
\* last and marked.
RECURSIVE run_commands(_, _, _, _)
run_commands(lg, cmds, args, disk) ==
    IF cmds = <<>> THEN lg
    ELSE LET c  == Head(cmds)
             ok == /\ c.reads \subseteq (UserFiles(args) \cup Written(lg)
                                         \cup {e.path : e \in Range(disk.listing)})
                   /\ \A w \in c.writes : ~(w \in disk.exists /\ ~disk.force)
         IN  IF ok THEN run_commands(Append(lg, c), Tail(cmds), args, disk)
             ELSE Append(lg, [c EXCEPT !.ok = FALSE])

Failed(lg) == lg # <<>> /\ ~lg[Len(lg)].ok

Fail(msg) == pc' = "error" /\ error' = msg

\* lines 116-134: the option checks
CheckOptions ==
    /\ pc = "check_options"
    /\ LET need == ARGS.tumour \/ (~ARGS.transform /\ ~ARGS.premasked)
           make == need /\ ~ARGS.brain_mask
       IN  IF ~ARGS.deformation_only /\ ~(ARGS.transform \/ ARGS.struct)
           THEN /\ Fail("One of the following options must be provided: -transform, -struct")
                /\ UNCHANGED make_brain_mask
           ELSE IF ARGS.tumour /\ ARGS.k = "exponential_constant" /\ ArgL(ARGS) = 0
           THEN /\ Fail("-l is required when using -k exponential_constant")
                /\ UNCHANGED make_brain_mask
           ELSE IF make /\ ~ARGS.struct
           THEN /\ Fail("A brain mask is required")
                /\ make_brain_mask' = TRUE
           ELSE /\ pc' = "parse_args"
                /\ make_brain_mask' = make
                /\ UNCHANGED error
    /\ UNCHANGED <<ARGS, fs, atlas_paths, output_paths, zip_i, engine, log,
                   c2sVars, simpVars, surfVars>>

\* lines 155-165: the loop over the derived output paths, last to first; j is
\* the 1-based position in the copy cp
RECURSIVE skip_existing(_, _, _, _, _)
skip_existing(j, ap, op, cp, disk) ==
    IF j = 0 THEN [atlas_paths |-> ap, output_paths |-> op, error |-> ""]
    ELSE LET skip == check_output_path_raises(disk, cp[j])
             ap1  == IF skip THEN Pop(ap, j) ELSE ap
             op1  == IF skip THEN Pop(op, j) ELSE op
         IN  IF ap1 = <<>> \/ op1 = <<>>
             THEN [atlas_paths |-> ap1, output_paths |-> op1,
                   error |-> "No new outputs to create"]
             ELSE IF Cardinality(Range(op1)) # Len(op1)
             THEN [atlas_paths |-> ap1, output_paths |-> op1,
                   error |-> "Non-unique atlas filenames present"]
             ELSE skip_existing(j - 1, ap1, op1, cp, disk)

\* the output path whose check fails first, in order, if any
FirstRejected(q, disk) ==
    LET bad == {j \in DOMAIN q : check_output_path_raises(disk, q[j])}
    IN  IF bad = {} THEN 0 ELSE CHOOSE j \in bad : \A m \in bad : j <= m

\* the images an atlas directory of the model can hold
DirFiles == {"atlasdir/a.mif", "atlasdir/a.nii.gz", "atlasdir/b.mif", "atlasdir/c.mif"}

\* lines 108-111: the base name with every extension removed
pure_stem(pathstr) ==
    CASE pathstr \in {"atlasdir/a.mif", "atlasdir/a.nii.gz"} -> "a"
      [] pathstr = "atlasdir/b.mif" -> "b"
      [] pathstr = "atlasdir/c.mif" -> "c"
      [] OTHER -> pathstr

\* line 154: os.path.join(dest, pure_stem(in_path) + suffix + '.' + fmt), for
\* the default suffix and format
DerivedOutput(dest, in_path) ==
    LET stem == pure_stem(in_path)
    IN  CASE stem = "a" -> "outdir/a_tractmap.mif"
          [] stem = "b" -> "outdir/b_tractmap.mif"
          [] stem = "c" -> "outdir/c_tractmap.mif"
          [] OTHER -> dest

\* lines 136-175: atlas_paths and output_paths from arg_pairs
parse_arg_pairs(arg_pairs, disk) ==
    IF Len(arg_pairs) % 2 = 1
    THEN [atlas_paths |-> <<>>, output_paths |-> <<>>, made |-> <<>>,
          error |-> "command expects pairs of input tract atlas and output map images"]
    ELSE IF Len(arg_pairs) = 2
    THEN LET source == arg_pairs[1]
             dest   == arg_pairs[2]
         IN  IF source \in disk.dirs
             THEN IF make_dir_raises(disk, dest)
                  THEN [atlas_paths |-> <<>>, output_paths |-> <<>>, made |-> <<>>,
                        error |-> "Path exists and is not a directory"]
                  ELSE LET sh == SelectSeq(disk.listing, LAMBDA e : e.is_sh)
                           ap == [j \in DOMAIN sh |-> sh[j].path]
                           op == [j \in DOMAIN sh |-> DerivedOutput(dest, sh[j].path)]
                           r  == skip_existing(Len(op), ap, op, op, disk)
                       IN  [atlas_paths |-> r.atlas_paths, output_paths |-> r.output_paths,
                            made |-> <<Cmd("make_dir", {}, {dest})>>, error |-> r.error]
             ELSE IF check_output_path_raises(disk, dest)
                  THEN [atlas_paths |-> <<>>, output_paths |-> <<>>, made |-> <<>>,
                        error |-> "output file already exists"]
                  ELSE [atlas_paths |-> <<source>>, output_paths |-> <<dest>>,
                        made |-> <<>>, error |-> ""]
    ELSE LET ap == [j \in 1..(Len(arg_pairs) \div 2) |-> arg_pairs[2 * j - 1]]
             op == [j \in 1..(Len(arg_pairs) \div 2) |-> arg_pairs[2 * j]]
         IN  [atlas_paths |-> ap, output_paths |-> op, made |-> <<>>,
              error |-> IF FirstRejected(op, disk) = 0 THEN ""
                        ELSE "output file already exists"]

ParseArgs ==
    /\ pc = "parse_args"
    /\ LET r == parse_arg_pairs(ARGS.arg_pairs, fs)
       IN  /\ atlas_paths' = r.atlas_paths
           /\ output_paths' = r.output_paths
           /\ log' = log \o r.made
           /\ IF r.error # "" THEN Fail(r.error)
              ELSE pc' = "output_checks" /\ UNCHANGED error
    /\ UNCHANGED <<ARGS, fs, make_brain_mask, zip_i, engine, c2sVars, simpVars, surfVars>>

\* lines 177-178
OutputChecks ==
    /\ pc = "output_checks"
    /\ IF ARGS.distance_lookup /\ make_dir_raises(fs, "user:distance_lookup")
       THEN Fail("Path exists and is not a directory") /\ UNCHANGED log
       ELSE /\ log' = IF ARGS.distance_lookup
                      THEN Append(log, Cmd("make_dir", {}, {"user:distance_lookup"}))
                      ELSE log
            /\ IF ARGS.deformation_field
                  /\ check_output_path_raises(fs, "user:deformation_field")
               THEN Fail("output file already exists")
               ELSE pc' = "scratch" /\ UNCHANGED error
    /\ UNCHANGED <<ARGS, fs, make_brain_mask, atlas_paths, output_paths, zip_i, engine,
                   c2sVars, simpVars, surfVars>>

\* run the commands of one section of execute() and go on to next, or stop
\* where a command fails
Section(cmds, next) ==
    LET lg == run_commands(log, cmds, ARGS, fs)
    IN  /\ log' = lg
        /\ IF Failed(lg) THEN Fail("command failed") ELSE pc' = next /\ UNCHANGED error

\* lines 194-204: the scratch directory, and the structural image
Scratch ==
    /\ pc = "scratch"
    /\ Section(<<Cmd("make_scratch_dir", {}, {})>>
               \o (IF ARGS.struct
                   THEN <<Cmd("mrconvert", {"user:struct1"}, {struct_image})>>
                   ELSE <<>>),
               "brain_mask")
    /\ UNCHANGED <<ARGS, fs, make_brain_mask, atlas_paths, output_paths, zip_i, engine,
                   c2sVars, simpVars, surfVars>>

\* lines 208-233 only: the mask is made for the registration, and the step
\* that regrids it for the deformation (lines 236-239) is left out
brain_mask_cmds_registration_only(args, make) ==
    IF ~make THEN <<>>
    ELSE IF args.premasked
    THEN <<Cmd("mrthreshold | mrgrid regrid", {"user:struct1"}, {mask_image_def})>>
    ELSE <<Cmd("mrconvert | mrthreshold", {"user:input"}, {"fod_mask.nii.gz"}),
           Cmd("fslmaths -fillh", {"fod_mask.nii.gz"}, {"fod_mask.nii.gz"}),
           Cmd("mrfilter | mrthreshold | mrgrid regrid",
               {"fod_mask.nii.gz", struct_image}, {"fod_mask_smooth_regrid.mif"}),
           Cmd("maskfilter | mrcalc",
               {"fod_mask_smooth_regrid.mif", struct_image},
               {"struct_rough_masked.nii.gz"}),
           Cmd("bet", {"struct_rough_masked.nii.gz"}, {bet_image, "bet_mask.nii.gz"})>>

\* lines 208-239: the commands that make a brain mask
brain_mask_cmds(args, make) ==
    IF ~make THEN <<>>
    ELSE IF args.premasked
    THEN <<Cmd("mrthreshold | mrgrid regrid", {"user:struct1"}, {mask_image_def})>>
    ELSE <<Cmd("mrconvert | mrthreshold", {"user:input"}, {"fod_mask.nii.gz"}),
           Cmd("fslmaths -fillh", {"fod_mask.nii.gz"}, {"fod_mask.nii.gz"}),
           Cmd("mrfilter | mrthreshold | mrgrid regrid",
               {"fod_mask.nii.gz", struct_image}, {"fod_mask_smooth_regrid.mif"}),
           Cmd("maskfilter | mrcalc",
               {"fod_mask_smooth_regrid.mif", struct_image},
               {"struct_rough_masked.nii.gz"}),
           Cmd("bet", {"struct_rough_masked.nii.gz"}, {bet_image, "bet_mask.nii.gz"})>>
         \o (IF args.tumour
             THEN <<Cmd("mrgrid regrid", {"bet_mask.nii.gz"}, {"tmp.mif"}),
                    Cmd("mrgrid crop", {"tmp.mif"}, {mask_image_def})>>
             ELSE <<>>)

\* lines 208-239
BrainMask ==
    /\ pc = "brain_mask"
    /\ Section(brain_mask_cmds(ARGS, make_brain_mask), "tumour")
    /\ UNCHANGED <<ARGS, fs, make_brain_mask, atlas_paths, output_paths, zip_i, engine,
                   c2sVars, simpVars, surfVars>>

\* lines 242-253: the masks of the deformation grid
TumourMasks ==
    /\ pc = "tumour"
    /\ IF ~ARGS.tumour
       THEN pc' = "registration" /\ UNCHANGED <<log, error>>
       ELSE Section(
              (IF ARGS.brain_mask
               THEN <<Cmd("mrgrid regrid", {"user:brain_mask"}, {"tmp.mif"}),
                      Cmd("mrgrid crop", {"tmp.mif"}, {mask_image_def})>>
               ELSE <<>>)
              \o <<Cmd("mrgrid regrid", {"user:tumour", mask_image_def}, {tumour_mask})>>,
              "engine")
    /\ UNCHANGED <<ARGS, fs, make_brain_mask, atlas_paths, output_paths, zip_i, engine,
                   c2sVars, simpVars, surfVars>>

NoEngine == [called |-> FALSE, def_field_forw |-> FALSE, expon |-> None,
             expon_const |-> FALSE, save_lookup |-> FALSE]

\* lines 257-267: the call of virtue.entry_point_chh
Engine ==
    /\ pc = "engine"
    /\ engine' = [called |-> TRUE,
                  def_field_forw |-> ARGS.deformation_field_forward,
                  expon |-> IF ARGS.k = "linear" THEN None ELSE Some(ArgL(ARGS)),
                  expon_const |-> (ARGS.k = "exponential_constant"),
                  save_lookup |-> ARGS.distance_lookup]
    /\ Section(<<Cmd("virtue.entry_point_chh", {tumour_mask, mask_image_def},
                     {def_field_image}
                     \cup (IF ARGS.deformation_field_forward
                           THEN {def_field_image_forward} ELSE {}))>>,
               "write_fields")
    /\ UNCHANGED <<ARGS, fs, make_brain_mask, atlas_paths, output_paths, zip_i,
                   c2sVars, simpVars, surfVars>>

\* lines 278-284, as one nested under the other: the forward field is
\* converted only inside the branch of -deformation_field
field_converts_nested(args) ==
    IF args.deformation_field
    THEN <<Cmd("mrconvert", {def_field_image}, {"user:deformation_field"})>>
         \o (IF args.deformation_field_forward
             THEN <<Cmd("mrconvert", {def_field_image_forward},
                        {"user:deformation_field_forward"})>>
             ELSE <<>>)
    ELSE <<>>

\* lines 278-284: the converts of the fields the user asked for
field_converts(args) ==
    (IF args.deformation_field
     THEN <<Cmd("mrconvert", {def_field_image}, {"user:deformation_field"})>>
     ELSE <<>>)
    \o (IF args.deformation_field_forward
        THEN <<Cmd("mrconvert", {def_field_image_forward},
                   {"user:deformation_field_forward"})>>
        ELSE <<>>)

\* lines 278-287: the fields the user asked for, and -deformation_only
WriteFields ==
    /\ pc = "write_fields"
    /\ Section(field_converts(ARGS),
               IF ARGS.deformation_only THEN "done" ELSE "registration")
    /\ UNCHANGED <<ARGS, fs, make_brain_mask, atlas_paths, output_paths, zip_i, engine,
                   c2sVars, simpVars, surfVars>>

\* lines 292-311
Registration ==
    /\ pc = "registration"
    /\ Section(
         IF ARGS.transform
         THEN <<Cmd("shutil.copy", {"user:transform"}, {"transform.txt"})>>
         ELSE (IF ARGS.premasked
               THEN <<Cmd("mrconvert", {"user:struct1"}, {bet_image})>>
               ELSE IF ARGS.brain_mask
               THEN <<Cmd("mrgrid regrid", {"user:brain_mask", struct_image}, {mask_image_reg}),
                      Cmd("mrcalc", {mask_image_reg, struct_image}, {bet_image})>>
               ELSE <<>>)
              \o <<Cmd("flirt", {"user:struct0", bet_image}, {"transform_flirt.txt"}),
                   Cmd("transformconvert", {"transform_flirt.txt", "user:struct0", bet_image},
                       {"transform.txt"})>>,
         "mapping")
    /\ zip_i' = IF Failed(log') THEN zip_i ELSE 1
    /\ UNCHANGED <<ARGS, fs, make_brain_mask, atlas_paths, output_paths, engine,
                   c2sVars, simpVars, surfVars>>

\* lines 319-354: one turn of the loop over zip(atlas_paths, output_paths)
MapAtlas ==
    /\ pc = "mapping" /\ zip_i <= Len(atlas_paths) /\ zip_i <= Len(output_paths)
    /\ Section(
         (IF ARGS.tumour
          THEN <<Cmd("mrtransform -warp",
                     {atlas_paths[zip_i], "transform.txt", def_field_image}, {"tmp.mif"}),
                 Cmd("mrgrid regrid", {"tmp.mif", "user:input"}, {"atlas_i.mif"})>>
          ELSE <<Cmd("mrtransform", {atlas_paths[zip_i], "transform.txt", "user:input"},
                     {"atlas_i.mif"})>>)
         \o <<Cmd("mrcalc | mrmath | mrconvert", {"atlas_i.mif", "user:input"},
                  {output_paths[zip_i]})>>,
         "mapping")
    /\ zip_i' = IF Failed(log') THEN zip_i ELSE zip_i + 1
    /\ UNCHANGED <<ARGS, fs, make_brain_mask, atlas_paths, output_paths, engine,
                   c2sVars, simpVars, surfVars>>

\* line 356: the loop is over
MapDone ==
    /\ pc = "mapping" /\ ~(zip_i <= Len(atlas_paths) /\ zip_i <= Len(output_paths))
    /\ pc' = "done"
    /\ UNCHANGED <<ARGS, fs, make_brain_mask, atlas_paths, output_paths, zip_i, engine,
                   log, error, c2sVars, simpVars, surfVars>>

EmptyDisk == [dirs |-> {}, listing |-> <<>>, exists |-> {}, force |-> FALSE]

Options ==
    [tumour : BOOLEAN, k : {"linear", "exponential", "exponential_constant"},
     l : {None, Some(0), Some(2)},
     deformation_only : BOOLEAN, transform : BOOLEAN, struct : BOOLEAN,
     premasked : BOOLEAN, brain_mask : BOOLEAN, distance_lookup : BOOLEAN,
     deformation_field : BOOLEAN, deformation_field_forward : BOOLEAN,
     arg_pairs : {<<"atlas1">>, <<"atlas1", "out1">>,
                  <<"atlas1", "out1", "atlas2", "out2">>}]

ExecStart ==
    /\ pc = "check_options" /\ make_brain_mask = FALSE
    /\ atlas_paths = <<>> /\ output_paths = <<>> /\ zip_i = 0
    /\ engine = NoEngine /\ log = <<>> /\ error = ""

\* runs over every combination of the options, on a disk where no output
\* exists yet
InitExec ==
    /\ ARGS \in Options /\ fs = EmptyDisk /\ ExecStart
    /\ IdleC2s /\ IdleSimp /\ IdleSurf
NextExec ==
    \/ CheckOptions \/ ParseArgs \/ OutputChecks \/ Scratch \/ BrainMask
    \/ TumourMasks \/ Engine \/ WriteFields \/ Registration \/ MapAtlas \/ MapDone
SpecExec == InitExec /\ [][NextExec]_vars

\* the listings of an atlas directory: up to MaxListing distinct images
RECURSIVE ListingsUpTo(_)
ListingsUpTo(n) ==
    IF n = 0 THEN {<<>>}
    ELSE LET shorter == ListingsUpTo(n - 1)
         IN  shorter \cup
             {Append(q, [path |-> f, is_sh |-> b]) :
                  q \in {x \in shorter : Len(x) = n - 1},
                  f \in DirFiles, b \in BOOLEAN}
Listings ==
    {q \in ListingsUpTo(MaxListing) :
         \A j, m \in DOMAIN q : j # m => q[j].path # q[m].path}

DerivedOutputs == {DerivedOutput("outdir", f) : f \in DirFiles}

\* disks for the directory mode: the output directory is absent, a file, or
\* a directory holding some of the derived outputs
DirDisks ==
    {[dirs |-> {"atlasdir"}, listing |-> q, exists |-> {}, force |-> f] :
         q \in Listings, f \in BOOLEAN}
    \cup {[dirs |-> {"atlasdir"}, listing |-> q, exists |-> {"outdir"}, force |-> f] :
              q \in Listings, f \in BOOLEAN}
    \cup {[dirs |-> {"atlasdir", "outdir"}, listing |-> q,
           exists |-> {"outdir"} \cup x, force |-> f] :
              q \in Listings, x \in SUBSET DerivedOutputs, f \in BOOLEAN}

\* disks for the file modes: some of the outputs the user names exist already
FileDisks ==
    {[dirs |-> {}, listing |-> <<>>, exists |-> x, force |-> f] :
         x \in SUBSET {"out1", "out2", "user:deformation_field",
                       "user:deformation_field_forward"},
         f \in BOOLEAN}

DiskOptions(pairs) ==
    [tumour : BOOLEAN, k : {"linear"}, l : {None},
     deformation_only : {FALSE}, transform : {TRUE}, struct : {FALSE},
     premasked : {FALSE}, brain_mask : {TRUE}, distance_lookup : {FALSE},
     deformation_field : BOOLEAN, deformation_field_forward : BOOLEAN,
     arg_pairs : pairs]

\* runs with a transform and a brain mask given, over the three input modes
\* and over what the run finds on disk
InitDisk ==
    /\ \/ /\ fs \in DirDisks
          /\ ARGS \in {a \in DiskOptions({<<"atlasdir", "outdir">>}) :
                           ~a.deformation_field /\ ~a.deformation_field_forward}
       \/ /\ fs \in FileDisks
          /\ ARGS \in DiskOptions({<<"atlas1">>, <<"atlas1", "out1">>,
                                   <<"atlas1", "out1", "atlas2">>,
                                   <<"atlas1", "out1", "atlas2", "out2">>})
    /\ ExecStart
    /\ IdleC2s /\ IdleSimp /\ IdleSurf
SpecDisk == InitDisk /\ [][NextExec]_vars

(***************************************************************************)
(* Claims about execute().                                                 *)
(***************************************************************************)
ConfigurationErrors ==
    {"One of the following options must be provided: -transform, -struct",
     "-l is required when using -k exponential_constant",
     "A brain mask is required"}

\* C2: when -tumour is given with -k exponential_constant and the user gave
\* no -l, execute() aborts in the option checks with a configuration error:
\* no command is run, no mask is processed and the deformation engine is
\* never called.
C2_ConstantNeedsLambda ==
    (/\ ARGS.tumour /\ ARGS.k = "exponential_constant" /\ ~ARGS.l.given
     /\ pc # "check_options")
    => /\ pc = "error" /\ error \in ConfigurationErrors
       /\ log = <<>> /\ ~engine.called

\* the commands of the registration section and of the atlas loop
RegistrationCmds == {"shutil.copy", "flirt", "transformconvert"}
MappingCmds == {"mrtransform", "mrtransform -warp", "mrcalc | mrmath | mrconvert"}
Ran(names) == \E j \in DOMAIN log : log[j].cmd \in names

\* C11: in a run with -deformation_only, whatever the other options, no
\* registration command (copy of the transform, FLIRT) and no atlas mapping
\* command is ever run.
C11_DeformationOnlyStops ==
    ARGS.deformation_only => ~Ran(RegistrationCmds \cup MappingCmds)

\* a command that ran to its end wrote p
Converted(p) == \E j \in DOMAIN log : log[j].ok /\ p \in log[j].writes

\* C12: the forward and the inverse field are independent outputs.  The
\* engine is asked for the forward field exactly when
\* -deformation_field_forward is given; a field is written to the user's
\* path only when its own option is given; and in a run with -tumour that
\* has passed the tumour section, each field whose option is given has been
\* written, whether or not the other was asked for.
C12_FieldsIndependent ==
    /\ engine.called => engine.def_field_forw = ARGS.deformation_field_forward
    /\ Converted("user:deformation_field_forward")
           => ARGS.deformation_field_forward /\ engine.called
    /\ Converted("user:deformation_field")
           => ARGS.deformation_field /\ engine.called
    /\ (ARGS.tumour /\ pc \in {"registration", "mapping", "done"})
           => /\ engine.called
              /\ ARGS.deformation_field_forward
                     => Converted("user:deformation_field_forward")
              /\ ARGS.deformation_field => Converted("user:deformation_field")

\* C12 witness: a finished run that asked for the forward field only, and
\* wrote it without writing the inverse field
C12_Witness ==
    /\ pc = "done" /\ ARGS.tumour
    /\ ARGS.deformation_field_forward /\ ~ARGS.deformation_field
    /\ engine.def_field_forw
    /\ Converted("user:deformation_field_forward")
    /\ ~Converted("user:deformation_field")

\* C14: whenever main reaches the unit radial directions, e is a finite
\* vector for every voxel of the grid, the voxel at the growth centre S
\* included.
C14_DirectionsFinite ==
    (main # <<>> /\ main.status = "ok") =>
        \A P \in Grid : main.e[P].kind = "unit"

\* position in the log of the first command that ran to its end and wrote p;
\* 0 when there is none
FirstWrite(p) ==
    LET at == {j \in DOMAIN log : log[j].ok /\ p \in log[j].writes}
    IN  IF at = {} THEN 0 ELSE CHOOSE j \in at : \A m \in at : j <= m

\* C15: when the run is at the engine call, the brain mask of the
\* deformation grid and the tumour mask regridded onto it have both been
\* written by earlier commands of the run, the brain mask first; and with
\* -tumour no command fails before the engine is called, whatever the
\* combination of -brain_mask, -struct, -premasked and -transform that
\* passed the option checks.
C15_MasksBeforeEngine ==
    /\ (pc = "engine" \/ engine.called) =>
           /\ 0 < FirstWrite(mask_image_def)
           /\ FirstWrite(mask_image_def) < FirstWrite(tumour_mask)
           /\ \A j \in DOMAIN log :
                  log[j].cmd = "virtue.entry_point_chh" => FirstWrite(tumour_mask) < j
    /\ (ARGS.tumour /\ Failed(log)) => engine.called

\* C15 witness: the engine was called in a run that had to make the brain
\* mask itself, from the structural image with bet
C15_Witness ==
    /\ engine.called /\ make_brain_mask /\ ~ARGS.premasked
    /\ Ran({"bet"}) /\ Ran({"virtue.entry_point_chh"})
    /\ FirstWrite(mask_image_def) < FirstWrite(tumour_mask)

\* the run is in directory mode and has got past the argument parsing
DirMode ==
    /\ ARGS.arg_pairs = <<"atlasdir", "outdir">> /\ "atlasdir" \in fs.dirs
    /\ pc \notin {"check_options", "parse_args"}

\* the atlas/output pairs of the directory that the run is to produce: the
\* spherical-harmonic images whose derived output passes the output check
NewPairs ==
    SelectSeq(fs.listing,
              LAMBDA x : x.is_sh /\ ~check_output_path_raises(
                                        fs, DerivedOutput("outdir", x.path)))

\* C16: in directory mode, whenever there is no new output to create (no
\* spherical-harmonic atlas in the directory, or every output rejected by the
\* output check), execute() fails with 'No new outputs to create' before the
\* scratch directory is made, and does not go on with no atlas.
C16_NoNewOutputsIsAnError ==
    (DirMode /\ ~make_dir_raises(fs, "outdir") /\ NewPairs = <<>>) =>
        /\ pc = "error" /\ error = "No new outputs to create"
        /\ ~Ran({"make_scratch_dir"})

\* the argument parsing has ended without an error
Parsed ==
    \/ pc \in {"output_checks", "scratch", "brain_mask", "tumour", "engine",
               "write_fields", "registration", "mapping", "done"}
    \/ pc = "error" /\ Ran({"make_scratch_dir"})

\* the atlas loop as the log shows it: the transform commands and the
\* commands that write an output, each in the order they ran
TransformsRun == SelectSeq(log, LAMBDA c : c.cmd \in {"mrtransform", "mrtransform -warp"})
OutputsRun == SelectSeq(log, LAMBDA c : c.cmd = "mrcalc | mrmath | mrconvert")

\* C17: after the argument parsing, atlas_paths and output_paths have the
\* same length and pair each atlas with its own output: in directory mode
\* the spherical-harmonic images whose output is not skipped, in the order of
\* the listing, each with the output derived from it; in the file modes the
\* odd and even positional paths.  The atlas loop takes the pairs in that
\* order, each once, and a finished run has taken them all.  An odd number of
\* positional paths ends the run with an error before anything is done.
C17_PairsStayAligned ==
    /\ Parsed =>
           /\ Len(atlas_paths) = Len(output_paths)
           /\ IF DirMode
              THEN /\ atlas_paths = [j \in DOMAIN NewPairs |-> NewPairs[j].path]
                   /\ output_paths = [j \in DOMAIN NewPairs |->
                                          DerivedOutput("outdir", NewPairs[j].path)]
              ELSE /\ 2 * Len(atlas_paths) = Len(ARGS.arg_pairs)
                   /\ \A j \in DOMAIN atlas_paths :
                          /\ atlas_paths[j] = ARGS.arg_pairs[2 * j - 1]
                          /\ output_paths[j] = ARGS.arg_pairs[2 * j]
           /\ Len(OutputsRun) <= Len(TransformsRun)
           /\ Len(TransformsRun) <= Len(atlas_paths)
           /\ \A j \in DOMAIN TransformsRun : atlas_paths[j] \in TransformsRun[j].reads
           /\ \A j \in DOMAIN OutputsRun : OutputsRun[j].writes = {output_paths[j]}
           /\ pc = "done" => Len(OutputsRun) = Len(atlas_paths)
    /\ Len(ARGS.arg_pairs) % 2 = 1 =>
           \/ pc \in {"check_options", "parse_args"}
           \/ /\ pc = "error" /\ log = <<>>
              /\ error = "command expects pairs of input tract atlas and output map images"

\* C17 witness: a finished run in directory mode over three images, one of
\* them skipped because its output exists, the other two mapped
C17_Witness ==
    /\ DirMode /\ pc = "done" /\ Len(fs.listing) = 3
    /\ fs.listing[2].is_sh
    /\ check_output_path_raises(fs, DerivedOutput("outdir", fs.listing[2].path))
    /\ atlas_paths = <<fs.listing[1].path, fs.listing[3].path>>
    /\ Len(OutputsRun) = 2

\* C18: for every raw face count n >= 1 and every target_nfaces >= 1, values
\* above n included, the fraction handed to the decimation is in [0, 1).
C18_ReductionInRange ==
    (/\ SurfCalled /\ surf.decimated
     /\ surf_in.target_nfaces.given /\ surf_in.target_nfaces.val >= 1)
    => /\ ~RatLess(surf.reduction, <<0, 1>>)
       /\ RatLess(surf.reduction, <<1, 1>>)

\* C19: no command of a run fails because the output it is to write exists
\* already: every output path the user names (the atlas outputs,
\* -deformation_field, -deformation_field_forward) has been put to the output
\* check before the scratch directory is made and before any command or the
\* engine runs.
C19_OutputsCheckedFirst ==
    \A j \in DOMAIN log :
        (\E w \in log[j].writes : check_output_path_raises(fs, w)) => log[j].ok

====
